---- MODULE Spec2Model ----
(***************************************************************************)
(* A model of the event ingestion pipeline of the realtime analytics SDK:  *)
(* the BatchProcessor (bounded queue, batch flush, retry), the             *)
(* SessionManager (session registry, expiry timers, periodic sweep) and    *)
(* AnalyticsSDK.track, which ties them together.                           *)
(*                                                                         *)
(* Execution is single-threaded and cooperative: every action below is the *)
(* synchronous run of one handler between two suspension points (an await  *)
(* of a storage call or of a timer).                                       *)
(***************************************************************************)
EXTENDS Integers, Sequences, FiniteSets, TLC

\* ---------------------------------------------------------------- bounds

\* BatchProcessorConfig.batchSize and maxQueueSize, scaled down.
BatchSize == 2
MaxQueueSize == 3
\* BatchProcessorConfig.maxRetries, the value AnalyticsSDK passes.
MaxRetries == 2
\* How many events are ever admitted by add/addBatch in one behaviour.
MaxEvents == 4
\* The longest array handed to addBatch.
MaxBatchArg == 2
\* Pending setImmediate(flush) callbacks that are told apart.
MaxImmediates == 1
\* SessionManagerConfig.sessionTimeout, in clock ticks.
SessionTimeout == 2
\* The clock (Date.now()) runs from 1 to MaxTime.
MaxTime == 3
\* Sessions ever created (fresh uuids) in one behaviour.
MaxSessions == 2
\* track calls made in one behaviour.
MaxTracks == 3
\* Distinct anonymousId and userId values callers pass.
NumAnon == 1
NumUsers == 1
\* Realtime subscribers.
NumSubs == 1
\* Objects that may be subscribed to the realtime stream.
NumPeers == 2
\* userRetentionPeriod of cleanupExpiredUsers, in clock ticks.
UserRetention == 1
\* Items of a trackBatch call.
MaxBatchItems == 2
\* Track calls that may be suspended at the same time.
MaxInFlight == 2
\* Explicit endSession calls and effective cleanup sweeps in a behaviour.
MaxEndCalls == 2
MaxSweeps == 1
\* broadcast* calls and subscribe calls in one behaviour; messages one
\* subscriber is sent.
MaxCasts == 2
MaxSubCalls == 2
MaxInbox == 5

VARIABLES
  \* BatchProcessor
  queue,        \* this.queue: sequence of QueueItem [id, attempts]
  processing,   \* this.processing
  flights,      \* flush() activations past the guard, each awaiting something
  timerOn,      \* this.flushTimer is set
  immediates,   \* pending setImmediate(() => this.flush()) callbacks
  wipe,         \* the clear()/shutdown() call awaiting its flush: [st, kind]
  closed,       \* shutdown() has returned
  nextId,       \* next fresh QueueItem id (uuidv4)
  \* storage adapter and history of the BatchProcessor
  stored,       \* ids written by a saveEvents call that succeeded
  dropped,      \* ids discarded after attempts reached maxRetries
  sent,         \* id -> number of saveEvents calls that contained the item
  requeued,     \* id -> number of times the item was pushed back after a failure
  addResult,    \* add() as the last handler run: "ok" | "capacity" (it threw); else "none"
  \* SessionManager
  sessions,     \* this.sessions: the Map's entries in insertion order
  armed,        \* this.sessionTimeouts: session id -> due time of its timer, 0: none
  orphans,      \* pending setTimeout callbacks no longer in sessionTimeouts
  users,        \* this.users: anonymousId -> user record or NoUserRec
  now,          \* Date.now()
  nextSid,      \* next fresh session id (uuidv4)
  ends,         \* endSession() calls suspended at a storage call
  \* storage adapter (sessions, users)
  sstore,       \* session id -> stored session record or NoRec
  ustore,       \* anonymousId -> stored user record or NoUserRec
  ffs,          \* updateSession calls issued by the sweep and not awaited
  \* AnalyticsSDK
  gdpr,         \* config.privacy.enableGDPR
  tracks,       \* track() calls suspended at a storage call or at add's flush
  calls,        \* calls so far: track, endSession, effective cleanup sweeps,
                \* broadcast*, subscribe; what the last of them were
  \* RealtimeEventEmitter
  isEnabled,    \* this.isEnabled
  subscribers,  \* this.subscribers
  peers,        \* the objects callers subscribe: [kind, open, throws]
  \* BrowserAnalyticsSDK
  browser,      \* [queue, flight, online, timer, next] of the browser SDK
  \* AnalyticsSDK.trackBatch
  tbatch,       \* the trackBatch call made last: [st, items, anon, k0, id0, msgs0, cnt0]
  inbox,        \* object -> types of the messages its send/onMessage accepted
  \* history
  prev,         \* anonymousId -> the last completed track call without explicit sessionId
  swept,        \* ids of the sessions the periodic sweep ended
  last          \* what the track call that ended last did

bpVars == <<queue, processing, flights, timerOn, immediates, wipe, closed,
            nextId, stored, dropped, sent, requeued, addResult>>

smVars == <<sessions, armed, orphans, users, now, nextSid, ends, sstore, ustore,
            ffs, gdpr, tracks, calls, isEnabled, peers, browser, tbatch, subscribers, inbox, prev,
            swept, last>>

\* smVars without tracks
smRest == <<sessions, armed, orphans, users, now, nextSid, ends, sstore, ustore,
            ffs, gdpr, calls, isEnabled, peers, browser, tbatch, subscribers, inbox, prev, swept,
            last>>

vars == <<bpVars, smVars>>

\* ---------------------------------------------------------------- helpers

Min(a, b) == IF a < b THEN a ELSE b

Range(s) == {s[i] : i \in 1..Len(s)}

Ids(s) == {s[i].id : i \in 1..Len(s)}

EventIds == 1..MaxEvents

NewItemMutant(n) == [id |-> n, attempts |-> 1]

\* QueueItem as built by add/addBatch: attempts starts at 0.
NewItem(n) == [id |-> n, attempts |-> 0]

WipeCaller == 0 - 1

\* k fresh items with ids n, n+1, ...
NewItems(n, k) == [i \in 1..k |-> NewItem(n + i - 1)]

\* ------------------------------------------------------- BatchProcessor

\* add: the capacity check (queue.length >= maxQueueSize).
QueueFullMutant(q) == Len(q) > MaxQueueSize
QueueFull(q) == Len(q) >= MaxQueueSize

BatchReadyMutant(q) == Len(q) > BatchSize

\* add/addBatch: the size threshold that triggers a flush.
BatchReady(q) == Len(q) >= BatchSize

\* flush: the early return (processing || queue.length === 0).
FlushSkipsMutant(q) == q = <<>>
FlushSkips(q) == processing \/ q = <<>>

\* processBatch: an item is retried while attempts < maxRetries.
ShouldRetryMutant(item) == item.attempts <= MaxRetries
ShouldRetry(item) == item.attempts < MaxRetries

\* processBatch: retry items are put back with queue.push, one by one.
RequeueMutant(q, items) == items \o q
Requeue(q, items) == q \o items

\* The items of a batch after a failed saveEvents: attempts incremented.
Bumped(batch) == [i \in 1..Len(batch) |->
                    [batch[i] EXCEPT !.attempts = batch[i].attempts + 1]]

RECURSIVE Filter(_, _)
Filter(s, keep) ==
  IF s = <<>> THEN <<>>
  ELSE IF s[1].id \in keep THEN <<s[1]>> \o Filter(Tail(s), keep)
       ELSE Filter(Tail(s), keep)

ItemsToRetry(batch) ==
  Filter(Bumped(batch), {it.id : it \in {x \in Range(Bumped(batch)) : ShouldRetry(x)}})

ItemsToDiscard(batch) ==
  Filter(Bumped(batch), {it.id : it \in {x \in Range(Bumped(batch)) : ~ShouldRetry(x)}})

DoFlushMutant(q, w) ==
  IF FlushSkips(q)
  THEN /\ queue' = q
       /\ UNCHANGED <<processing, flights, sent>>
  ELSE LET n == Min(Len(q), BatchSize)
           batch == SubSeq(q, 1, n)
       IN /\ queue' = q
          /\ processing' = TRUE
          /\ flights' = flights \cup
                {[batch |-> batch, pc |-> "saving", retry |-> <<>>, waiter |-> w,
                  failed |-> FALSE]}
          /\ sent' = [i \in EventIds |->
                        IF i \in Ids(batch) THEN Min(sent[i] + 1, MaxRetries + 1)
                        ELSE sent[i]]

\* flush() called with the queue holding q; w names the caller that awaits it:
\* 0 nobody (or a caller with nothing left to do), WipeCaller for
\* clear()/shutdown(), k > 0 for the k-th track call.
\* Past the guard it sets processing, splices the batch off the queue and
\* processBatch issues adapter.saveEvents before the first suspension.
DoFlush(q, w) ==
  IF FlushSkips(q)
  THEN /\ queue' = q
       /\ UNCHANGED <<processing, flights, sent>>
  ELSE LET n == Min(Len(q), BatchSize)
           batch == SubSeq(q, 1, n)
       IN /\ queue' = SubSeq(q, n + 1, Len(q))
          /\ processing' = TRUE
          /\ flights' = flights \cup
                {[batch |-> batch, pc |-> "saving", retry |-> <<>>, waiter |-> w,
                  failed |-> FALSE]}
          /\ sent' = [i \in EventIds |->
                        IF i \in Ids(batch) THEN sent[i] + 1 ELSE sent[i]]

AddCoreMutant(w) ==
  IF QueueFull(queue)
  THEN /\ addResult' = "capacity"
       /\ UNCHANGED <<queue, processing, flights, sent, nextId>>
  ELSE /\ nextId <= MaxEvents
       /\ addResult' = "ok"
       /\ nextId' = nextId + 1
       /\ LET q == <<NewItem(nextId)>> \o queue
          IN IF BatchReady(q) THEN DoFlush(q, w)
             ELSE /\ queue' = q
                  /\ UNCHANGED <<processing, flights, sent>>

\* The body of add(event), called by the caller w.
AddCore(w) ==
  IF QueueFull(queue)
  THEN /\ addResult' = "capacity"
       /\ UNCHANGED <<queue, processing, flights, sent, nextId>>
  ELSE /\ nextId <= MaxEvents
       /\ addResult' = "ok"
       /\ nextId' = nextId + 1
       /\ LET q == Append(queue, NewItem(nextId))
          IN IF BatchReady(q) THEN DoFlush(q, w)
             ELSE /\ queue' = q
                  /\ UNCHANGED <<processing, flights, sent>>

\* async add(event), called on the BatchProcessor directly
Add ==
  /\ ~closed
  /\ AddCore(0)
  /\ UNCHANGED <<timerOn, immediates, wipe, closed, stored, dropped, requeued>>

\* The events of an addBatch argument that fit below maxQueueSize.
Admitted(q, k) ==
  IF QueueFull(q) THEN 0 ELSE Min(k, MaxQueueSize - Len(q))

\* async addBatch(events), events of length k
AddBatch(k) ==
  /\ ~closed
  /\ LET a == Admitted(queue, k)
         q == queue \o NewItems(nextId, a)
     IN /\ nextId + a - 1 <= MaxEvents
        /\ nextId' = nextId + a
        /\ IF BatchReady(q) THEN DoFlush(q, 0)
           ELSE /\ queue' = q
                /\ UNCHANGED <<processing, flights, sent>>
  /\ UNCHANGED <<timerOn, immediates, wipe, closed, stored, dropped, requeued>>
  /\ addResult' = "none"

\* flush() called by a client (AnalyticsSDK.flush)
Flush ==
  /\ DoFlush(queue, 0)
  /\ UNCHANGED <<timerOn, immediates, wipe, closed, nextId, stored, dropped,
                 requeued>>
  /\ addResult' = "none"

TickMutant ==
  /\ timerOn
  /\ addResult' = "none"
  /\ UNCHANGED <<queue, processing, flights, sent, timerOn, immediates, wipe,
                 closed, nextId, stored, dropped, requeued>>

\* The setInterval callback of startFlushTimer.
Tick ==
  /\ timerOn
  /\ DoFlush(queue, 0)
  /\ UNCHANGED <<timerOn, immediates, wipe, closed, nextId, stored, dropped,
                 requeued>>
  /\ addResult' = "none"

\* The setImmediate callback scheduled by flush's finally block.
Immediate ==
  /\ immediates > 0
  /\ immediates' = immediates - 1
  /\ DoFlush(queue, 0)
  /\ UNCHANGED <<timerOn, wipe, closed, nextId, stored, dropped, requeued>>
  /\ addResult' = "none"

\* adapter.saveEvents resolves: processBatch returns normally.
SaveOk(f) ==
  /\ f.pc = "saving"
  /\ stored' = stored \cup Ids(f.batch)
  /\ flights' = (flights \ {f}) \cup {[f EXCEPT !.pc = "finally"]}
  /\ UNCHANGED <<queue, processing, timerOn, immediates, wipe, closed, nextId,
                 dropped, sent, requeued>>
  /\ addResult' = "none"

\* adapter.saveEvents rejects: the catch block of processBatch up to the delay.
SaveFail(f) ==
  /\ f.pc = "saving"
  /\ LET retry == ItemsToRetry(f.batch)
         discard == ItemsToDiscard(f.batch)
     IN /\ dropped' = dropped \cup Ids(discard)
        /\ flights' = (flights \ {f}) \cup
              {[f EXCEPT !.pc = IF retry # <<>> THEN "delay" ELSE "finally",
                         !.batch = Bumped(f.batch),
                         !.retry = retry, !.failed = TRUE]}
  /\ UNCHANGED <<queue, processing, timerOn, immediates, wipe, closed, nextId,
                 stored, sent, requeued>>
  /\ addResult' = "none"

\* The retry delay elapses: the retry items go back into the queue.
RetryRequeue(f) ==
  /\ f.pc = "delay"
  /\ queue' = Requeue(queue, f.retry)
  /\ requeued' = [i \in EventIds |->
                    IF i \in Ids(f.retry) THEN requeued[i] + 1 ELSE requeued[i]]
  /\ flights' = (flights \ {f}) \cup {[f EXCEPT !.pc = "finally"]}
  /\ UNCHANGED <<processing, timerOn, immediates, wipe, closed, nextId, stored,
                 dropped, sent>>
  /\ addResult' = "none"

FlushFinallyMutant(f) ==
  /\ f.pc = "finally"
  /\ processing' = f.failed
  /\ flights' = flights \ {f}
  /\ immediates' = IF queue # <<>> THEN Min(immediates + 1, MaxImmediates)
                   ELSE immediates
  /\ wipe' = IF f.waiter = WipeCaller THEN [wipe EXCEPT !.st = "ready"] ELSE wipe
  /\ UNCHANGED <<queue, timerOn, closed, nextId, stored, dropped, sent,
                 requeued>>
  /\ addResult' = "none"

\* The finally block of flush: processing = false, then setImmediate(flush)
\* when items remain. The caller awaiting this flush may then resume.
FlushFinally(f) ==
  /\ f.pc = "finally"
  /\ processing' = FALSE
  /\ flights' = flights \ {f}
  /\ immediates' = IF queue # <<>> THEN Min(immediates + 1, MaxImmediates)
                   ELSE immediates
  /\ wipe' = IF f.waiter = WipeCaller THEN [wipe EXCEPT !.st = "ready"] ELSE wipe
  /\ UNCHANGED <<queue, timerOn, closed, nextId, stored, dropped, sent,
                 requeued>>
  /\ addResult' = "none"

\* clear() / shutdown() up to `await this.flush()`; shutdown stops the timer.
WipeCall(kind) ==
  /\ wipe.st = "none"
  /\ ~closed
  /\ timerOn' = IF kind = "shutdown" THEN FALSE ELSE timerOn
  /\ wipe' = [st |-> IF FlushSkips(queue) THEN "ready" ELSE "wait", kind |-> kind]
  /\ DoFlush(queue, WipeCaller)
  /\ UNCHANGED <<immediates, closed, nextId, stored, dropped, requeued>>
  /\ addResult' = "none"

\* clear() / shutdown() after the await: this.queue = [].
WipeResume ==
  /\ wipe.st = "ready"
  /\ queue' = <<>>
  /\ closed' = (closed \/ wipe.kind = "shutdown")
  /\ wipe' = [st |-> "none", kind |-> "none"]
  /\ UNCHANGED <<processing, flights, timerOn, immediates, nextId, stored,
                 dropped, sent, requeued>>
  /\ addResult' = "none"

\* ------------------------------------------------------- SessionManager

Anons == 1..NumAnon
UserIds == 1..NumUsers
SessionIds == 1..MaxSessions
Subs == 1..NumSubs
Peers == 1..NumPeers
\* No call made yet. on, ok, lost: isEnabled, the subscribers able to take a
\* message and the subscribers removed when the last broadcast* call was made;
\* sub: the object of the last subscribe call.
NoCalls == [tracks |-> 0, ends |-> 0, sweeps |-> 0, casts |-> 0, subs |-> 0,
            cast |-> "none", lost |-> {}, on |-> FALSE, ok |-> {}, sub |-> 0]
\* The readyState of an object that has no such property.
Undefined == 0 - 1
\* A subscriber with an onMessage callback that returns normally.
GoodPeer == [kind |-> "callback", readyState |-> Undefined, throws |-> FALSE]
\* Objects passed to subscribe: a WebSocket (send, readyState 0 CONNECTING or
\* 1 OPEN), an object with onMessage, an object with neither.
NewPeers ==
  {[kind |-> "socket", readyState |-> 0, throws |-> FALSE],
   [kind |-> "socket", readyState |-> 1, throws |-> FALSE],
   GoodPeer,
   [kind |-> "other", readyState |-> Undefined, throws |-> FALSE]}
\* The types of the messages broadcastEvent, broadcastStats, broadcastSession
\* and broadcastError build.
CastTypes == {"event", "stats", "session", "error"}

NoRec == [id |-> 0, userId |-> 0, anonymousId |-> 0, last |-> 0, endTime |-> 0,
          count |-> 0]

\* Keys and values of the traits objects passed to identify; Absent: the key
\* is not in the object.
TraitKeys == {"name", "email"}
TraitValues == {"X", "Y"}
Absent == "-"
TraitSets == [TraitKeys -> TraitValues \cup {Absent}]
NoTraits == [k \in TraitKeys |-> Absent]

\* { ...old, ...new }
MergeTraits(old, new) ==
  [k \in TraitKeys |-> IF new[k] # Absent THEN new[k] ELSE old[k]]

NoUserRec == [id |-> 0, consent |-> "absent", updatedAt |-> 0, createdAt |-> 0,
              traits |-> NoTraits]

NoPrev == [t |-> 0, sid |-> 0, cnt |-> 0, uid |-> 0]

NoLast == [k |-> 0, denied |-> FALSE, enq |-> FALSE, touches |-> 0, msgs |-> 0,
           outcome |-> "none", created |-> FALSE, flushFailed |-> FALSE,
           cast |-> FALSE,
           c7ok |-> TRUE]

\* getOrCreateSession: the new session object.
NewSession(sid, uid, anon, t) ==
  [id |-> sid, userId |-> uid, anonymousId |-> anon, last |-> t, endTime |-> 0,
   count |-> 0]

\* this.sessions.has / this.sessions.get
InMem(ss, sid) == \E i \in 1..Len(ss) : ss[i].id = sid

MemGet(ss, sid) ==
  IF InMem(ss, sid) THEN ss[CHOOSE i \in 1..Len(ss) : ss[i].id = sid] ELSE NoRec

\* this.sessions.set: an existing key keeps its place, a new key goes last.
MapSet(ss, rec) ==
  IF InMem(ss, rec.id)
  THEN [i \in 1..Len(ss) |-> IF ss[i].id = rec.id THEN rec ELSE ss[i]]
  ELSE Append(ss, rec)

\* this.sessions.delete
RECURSIVE MapDelete(_, _)
MapDelete(ss, sid) ==
  IF ss = <<>> THEN <<>>
  ELSE IF ss[1].id = sid THEN MapDelete(Tail(ss), sid)
       ELSE <<ss[1]>> \o MapDelete(Tail(ss), sid)

\* findActiveSession: not ended and now - lastActivityTime < sessionTimeout.
IsActive(sess, t) == sess.endTime = 0 /\ t - sess.last < SessionTimeout

\* findActiveSession: the session matches by userId or by anonymousId.
Matches(sess, uid, anon) ==
  \/ uid # 0 /\ sess.userId = uid
  \/ anon # 0 /\ sess.anonymousId = anon

\* findActiveSession: the first match in the Map's order, NoRec for null.
FindActive(ss, uid, anon, t) ==
  LET hits == {i \in 1..Len(ss) : IsActive(ss[i], t) /\ Matches(ss[i], uid, anon)}
  IN IF hits = {} THEN NoRec
     ELSE ss[CHOOSE i \in hits : \A j \in hits : i <= j]

\* updateSessionActivity: lastActivityTime = now, eventCount++ on the object.
TouchMem(ss, sid, t) ==
  [i \in 1..Len(ss) |->
     IF ss[i].id = sid THEN [ss[i] EXCEPT !.last = t, !.count = @ + 1] ELSE ss[i]]

\* endSession / endSessionImmediately: session.endTime = now on the object.
EndMem(ss, sid, t) ==
  [i \in 1..Len(ss) |-> IF ss[i].id = sid THEN [ss[i] EXCEPT !.endTime = t] ELSE ss[i]]

\* cleanupExpiredSessions: the test that puts a session on the expired list.
IsExpired(sess, t) == sess.endTime # 0 \/ t - sess.last >= SessionTimeout

\* adapter.getSession
DbGet(sid) == IF sid \in SessionIds THEN sstore[sid] ELSE NoRec

\* adapter.updateSession: a partial update of an existing record.
DbTouch(st, sid, t, c) ==
  IF sid \in SessionIds /\ st[sid] # NoRec
  THEN [st EXCEPT ![sid] = [@ EXCEPT !.last = t, !.count = c]]
  ELSE st

DbEnd(st, sid, t) ==
  IF sid \in SessionIds /\ st[sid] # NoRec
  THEN [st EXCEPT ![sid] = [@ EXCEPT !.endTime = t]]
  ELSE st

\* setSessionTimeout: the new handle replaces the one in sessionTimeouts, whose
\* timer stays pending unless it was cleared before.
SetTimerOrphans(sid) ==
  IF armed[sid] # 0 THEN orphans \cup {[sid |-> sid, due |-> armed[sid]]} ELSE orphans

SetTimerArmed(sid, t) == [armed EXCEPT ![sid] = t + SessionTimeout]

\* clearSessionTimeout
ClearTimer(ar, sid) == IF sid \in SessionIds THEN [ar EXCEPT ![sid] = 0] ELSE ar

\* The value shouldTrack resolves to.
ShouldTrack(anon) ==
  IF ~gdpr THEN TRUE
  ELSE LET u == IF users[anon] # NoUserRec THEN users[anon] ELSE ustore[anon]
       IN IF u = NoUserRec \/ u.consent = "unset" THEN FALSE
          ELSE u.consent = "true"

\* track: if (!this.shouldTrack(...)) tests the promise shouldTrack returns, not
\* the value it resolves to; a promise is an object, and !object is false.
TrackSkips(anon) == FALSE

\* getUser as called by shouldTrack: a user found only in storage is cached.
UsersAfterShouldTrack(anon) ==
  IF gdpr /\ users[anon] = NoUserRec /\ ustore[anon] # NoUserRec
  THEN [users EXCEPT ![anon] = ustore[anon]]
  ELSE users

\* sendToSubscriber(subscriber, message): an object with a send function is
\* sent to only when its readyState is 1 (OPEN); else an object with onMessage
\* is called; an object with neither gets nothing. A throw of send/onMessage
\* is caught.
SendResultMutant(p) ==
  IF p.kind = "other" THEN "skipped" ELSE IF p.throws THEN "error" ELSE "sent"

SendResult(p) ==
  IF p.kind = "socket"
  THEN IF p.readyState = 1 THEN (IF p.throws THEN "error" ELSE "sent")
       ELSE "skipped"
  ELSE IF p.kind = "callback" THEN (IF p.throws THEN "error" ELSE "sent")
       ELSE "skipped"

\* Subscribers whose send/onMessage takes the message.
Reached == {x \in subscribers : SendResult(peers[x]) = "sent"}

FailingMutant == {}

\* sendToSubscriber's catch: this.unsubscribe(subscriber).
Failing == {x \in subscribers : SendResult(peers[x]) = "error"}

SendAllMutant(box, type) ==
  IF \E x \in subscribers : SendResult(peers[x]) = "error" THEN box
  ELSE [x \in Peers |->
          IF x \in subscribers /\ SendResult(peers[x]) = "sent"
          THEN Append(box[x], type) ELSE box[x]]

\* broadcast(message): subscribers.forEach(sendToSubscriber); a throw of one
\* subscriber's send/onMessage stays inside sendToSubscriber.
SendAll(box, type) ==
  [x \in Peers |-> IF x \in Reached THEN Append(box[x], type) ELSE box[x]]

\* broadcastEvent: one message to every subscriber, when enabled.
Broadcast == IF isEnabled THEN SendAll(inbox, "event") ELSE inbox

Replace(set, old, new) == (set \ {old}) \cup {new}

\* ------------------------------------------- AnalyticsSDK.track, by steps

bpCore == <<queue, processing, flights, sent, nextId, addResult>>

bpRest == <<timerOn, immediates, wipe, closed, stored, dropped, requeued>>

\* event.sessionId = sessionId || session.id
EventSid(xsid, rsid) == IF xsid # 0 THEN xsid ELSE rsid

\* Event types callers pass; "" is the empty string.
EventTypes == {"", "click"}

\* The event track builds: id = uuidv4(), timestamp = Date.now().
NewEvent(k, type, esid) ==
  [id |-> k, type |-> type, timestamp |-> now, sessionId |-> esid]

\* validateEvent returns without throwing a ValidationError.
ValidateEvent(event) ==
  /\ event.id # 0
  /\ event.type # ""
  /\ event.timestamp # 0
  /\ event.sessionId # 0

\* What a track call that rejected did before.
Rejected(a, why) ==
  [NoLast EXCEPT !.k = a.k, !.outcome = why, !.created = a.created,
                 !.touches = a.touches, !.flushFailed = a.flushFailed]

\* track returns its event: the broadcast (when the event was enqueued), and
\* the record of what this call did. a: the call as suspended, b: as it ends.
Finish(a, b, enq) ==
  /\ tracks' = tracks \ {a}
  /\ inbox' = IF enq THEN Broadcast ELSE inbox
  /\ subscribers' = IF enq /\ isEnabled THEN subscribers \ Failing ELSE subscribers
  /\ last' = [k |-> b.k, denied |-> b.denied, enq |-> enq, touches |-> b.touches,
              msgs |-> IF enq /\ isEnabled THEN Cardinality(Reached) ELSE 0,
              c7ok |-> \/ b.chk = NoPrev
                       \/ b.esid = b.chk.sid /\ b.cnt > b.chk.cnt,
              outcome |-> "returned", created |-> b.created,
              flushFailed |-> b.flushFailed, cast |-> enq /\ isEnabled]
  /\ prev' = IF b.xsid = 0 /\ b.fresh
             THEN [prev EXCEPT ![b.anon] =
                     [t |-> b.t0, sid |-> b.esid, cnt |-> b.cnt, uid |-> b.uid]]
             ELSE prev

\* add(event) would start a flush that the caller has to await.
AddStartsFlush ==
  /\ ~QueueFull(queue)
  /\ BatchReady(Append(queue, NewItem(nextId)))
  /\ ~FlushSkips(Append(queue, NewItem(nextId)))

\* track from `await this.batchProcessor.add(event)` on: a capacity error
\* rejects the call; a flush that add starts is awaited; else track goes on to
\* the broadcast and returns.
AddPhase(a, b) ==
  /\ AddCore(b.k)
  /\ IF QueueFull(queue)
     THEN /\ tracks' = tracks \ {a}
          /\ last' = Rejected(b, "capacity")
          /\ UNCHANGED <<inbox, subscribers, prev>>
     ELSE IF AddStartsFlush
          THEN /\ tracks' = Replace(tracks, a, [b EXCEPT !.pc = "t_add"])
               /\ UNCHANGED <<inbox, subscribers, last, prev>>
          ELSE Finish(a, b, TRUE)

\* track(type, properties, context, sessionId = xsid, userId = uid, anonymousId
\* = anon) up to the first storage call of getOrCreateSession.
TrackStartCore(type, uid, anon, xsid) ==
  /\ calls.tracks < MaxTracks
  /\ Cardinality(tracks) < MaxInFlight
  /\ calls' = [calls EXCEPT !.tracks = @ + 1]
  /\ LET found == FindActive(sessions, uid, anon, now)
         call == [k |-> calls.tracks + 1, pc |-> "r_save", uid |-> uid, anon |-> anon,
                  xsid |-> xsid, rsid |-> nextSid, ranon |-> anon, esid |-> 0,
                  t0 |-> now, t |-> now, cnt |-> 0, touches |-> 0,
                  denied |-> FALSE, fresh |-> TRUE, type |-> type,
                  created |-> TRUE, flushFailed |-> FALSE,
                  chk |-> IF /\ xsid = 0
                             /\ prev[anon] # NoPrev
                             /\ prev[anon].uid = uid
                             /\ now - prev[anon].t < SessionTimeout
                          THEN prev[anon] ELSE NoPrev]
     IN IF found # NoRec
        THEN /\ sessions' = TouchMem(sessions, found.id, now)
             /\ tracks' = tracks \cup
                  {[call EXCEPT !.pc = "r_touch", !.rsid = found.id,
                                !.ranon = found.anonymousId,
                                !.cnt = found.count + 1, !.touches = 1,
                                !.created = FALSE]}
             /\ nextSid' = nextSid
        ELSE /\ nextSid <= MaxSessions
             /\ sessions' = Append(sessions, NewSession(nextSid, uid, anon, now))
             /\ tracks' = tracks \cup {call}
             /\ nextSid' = nextSid + 1
  /\ addResult' = "none"
  /\ UNCHANGED <<queue, processing, flights, sent, nextId, bpRest>>
  /\ UNCHANGED <<armed, orphans, users, now, ends, sstore, ustore, ffs, gdpr,
                 isEnabled, peers, browser, subscribers, inbox, prev, swept, last>>

\* track called on its own, not by trackBatch.
TrackStart(type, uid, anon, xsid) ==
  /\ TrackStartCore(type, uid, anon, xsid)
  /\ UNCHANGED tbatch

\* track of an event type that passes validation.
TrackCall(uid, anon, xsid) == TrackStart("click", uid, anon, xsid)

\* getOrCreateSession resumes after its storage call and returns; track builds
\* and validates the event, tests shouldTrack and runs updateSessionActivity
\* (event.sessionId) up to its first storage call.
TrackResolved(a) ==
  /\ a.pc \in {"r_touch", "r_save"}
  /\ sstore' = IF a.pc = "r_touch" THEN DbTouch(sstore, a.rsid, a.t, a.cnt)
               ELSE [sstore EXCEPT ![a.rsid] = NewSession(a.rsid, a.uid, a.ranon, a.t)]
  /\ armed' = SetTimerArmed(a.rsid, now)
  /\ orphans' = IF a.pc = "r_touch" THEN orphans ELSE SetTimerOrphans(a.rsid)
  /\ LET esid == EventSid(a.xsid, a.rsid)
         b == [a EXCEPT !.esid = esid,
                        !.denied = gdpr /\ ~ShouldTrack(a.ranon)]
     IN IF ~ValidateEvent(NewEvent(a.k, a.type, esid))
        THEN /\ tracks' = tracks \ {a}
             /\ last' = Rejected(a, "validation")
             /\ UNCHANGED <<sessions, users, inbox, subscribers, prev>>
        ELSE IF TrackSkips(a.ranon)
        THEN /\ Finish(a, b, FALSE)
             /\ users' = UsersAfterShouldTrack(a.ranon)
             /\ UNCHANGED sessions
        ELSE /\ UNCHANGED <<inbox, subscribers, last, prev>>
             /\ users' = UsersAfterShouldTrack(a.ranon)
             /\ IF InMem(sessions, esid)
                THEN /\ sessions' = TouchMem(sessions, esid, now)
                     /\ tracks' = Replace(tracks, a,
                          [b EXCEPT !.pc = "t_touch", !.t = now,
                                    !.cnt = MemGet(sessions, esid).count + 1,
                                    !.touches = @ + 1])
                ELSE /\ sessions' = sessions
                     /\ tracks' = Replace(tracks, a, [b EXCEPT !.pc = "t_load"])
  /\ addResult' = "none"
  /\ UNCHANGED <<queue, processing, flights, sent, nextId, bpRest>>
  /\ UNCHANGED <<now, nextSid, ends, ustore, ffs, gdpr, calls, isEnabled, peers, browser, tbatch,
                 swept>>

\* updateSessionActivity(event.sessionId): adapter.getSession resolves; a
\* session found is put into the Map and touched, null makes it return.
TrackLoaded(a) ==
  /\ a.pc = "t_load"
  /\ LET db == DbGet(a.esid)
     IN IF db # NoRec
        THEN /\ sessions' = TouchMem(MapSet(sessions, db), a.esid, now)
             /\ tracks' = Replace(tracks, a,
                  [a EXCEPT !.pc = "t_touch", !.t = now, !.cnt = db.count + 1,
                            !.touches = @ + 1])
             /\ addResult' = "none"
             /\ UNCHANGED <<queue, processing, flights, sent, nextId, inbox,
                         subscribers, last, prev>>
        ELSE /\ AddPhase(a, a)
             /\ UNCHANGED sessions
  /\ UNCHANGED bpRest
  /\ UNCHANGED <<armed, orphans, users, now, nextSid, ends, sstore, ustore, ffs,
                 gdpr, calls, isEnabled, peers, browser, tbatch, swept>>

\* updateSessionActivity(event.sessionId): adapter.updateSession resolves, the
\* expiry timer is reset, and track goes on to add.
TrackTouched(a) ==
  /\ a.pc = "t_touch"
  /\ sstore' = DbTouch(sstore, a.esid, a.t, a.cnt)
  /\ armed' = [ClearTimer(armed, a.esid) EXCEPT ![a.esid] = now + SessionTimeout]
  /\ AddPhase(a, a)
  /\ UNCHANGED bpRest
  /\ UNCHANGED <<sessions, orphans, users, now, nextSid, ends, ustore, ffs, gdpr,
                 calls, isEnabled, peers, browser, tbatch, swept>>

\* The promise of flush() when adapter.saveEvents rejected (failed): the catch
\* blocks of processBatch and of flush take the error, neither throws again,
\* and the promise resolves.
FlushRejectsMutant(failed) == failed

FlushRejects(failed) == FALSE

\* The flush that the add of the k-th track call awaits settles.
Settle(f) ==
  tracks' = {IF a.k = f.waiter THEN [a EXCEPT !.flushFailed = f.failed] ELSE a :
               a \in tracks}

\* The flush that add awaited has ended: add rejects as the flush did, and so
\* does track; else broadcast and return.
TrackAdded(a) ==
  /\ a.pc = "t_add"
  /\ ~\E f \in flights : f.waiter = a.k
  /\ IF FlushRejects(a.flushFailed)
     THEN /\ tracks' = tracks \ {a}
          /\ last' = Rejected(a, "save")
          /\ UNCHANGED <<inbox, subscribers, prev>>
     ELSE Finish(a, a, TRUE)
  /\ addResult' = "none"
  /\ UNCHANGED <<queue, processing, flights, sent, nextId, bpRest>>
  /\ UNCHANGED <<sessions, armed, orphans, users, now, nextSid, ends, sstore,
                 ustore, ffs, gdpr, calls, isEnabled, peers, browser, tbatch, swept>>

\* The storage call a track is suspended at rejects: track rejects.
TrackFail(a) ==
  /\ a.pc \in {"r_touch", "r_save", "t_load", "t_touch"}
  /\ tracks' = tracks \ {a}
  /\ last' = Rejected(a, "storage")
  /\ addResult' = "none"
  /\ UNCHANGED <<queue, processing, flights, sent, nextId, bpRest>>
  /\ UNCHANGED <<sessions, armed, orphans, users, now, nextSid, ends, sstore,
                 ustore, ffs, gdpr, calls, isEnabled, peers, browser, tbatch, subscribers, inbox, prev,
                 swept>>

\* ------------------------------------------------- AnalyticsSDK.trackBatch

\* No trackBatch call was made yet. Of a call: its items (the event types),
\* the identity, and what was there when it was made (track calls made, next
\* event id, subscribers and their messages, the sum of the eventCounts).
NoBatch == [st |-> "none", items |-> <<>>, anon |-> 0, k0 |-> 0, id0 |-> 0,
            subs0 |-> {}, msgs0 |-> [x \in Peers |-> 0], cnt0 |-> 0]

\* The events arrays callers pass to trackBatch.
BatchInputs == UNION {[1..n -> EventTypes] : n \in 1..MaxBatchItems}

CountSum(ss) ==
  LET RECURSIVE Sum(_)
      Sum(i) == IF i = 0 THEN 0 ELSE ss[i].count + Sum(i - 1)
  IN Sum(Len(ss))

EventMsgs(box) == Cardinality({i \in 1..Len(box) : box[i] = "event"})

\* smVars without tbatch
batchRest == <<sessions, armed, orphans, users, now, nextSid, ends, sstore,
               ustore, ffs, gdpr, tracks, calls, isEnabled, peers, browser,
               subscribers, inbox, prev, swept, last>>

\* trackBatch(events) up to the first suspension: the track of the first item
\* starts.
TrackBatchCall(items, anon) ==
  /\ tbatch.st # "run"
  /\ tracks = {}
  /\ tbatch' = [st |-> "run", items |-> items, anon |-> anon, k0 |-> calls.tracks,
                id0 |-> nextId, subs0 |-> subscribers,
                msgs0 |-> [x \in Peers |-> EventMsgs(inbox[x])],
                cnt0 |-> CountSum(sessions)]
  /\ TrackStartCore(items[1], 0, anon, 0)

\* trackBatch has no catch block: when a track rejects, nothing is undone.
AfterRejectMutant(q) == Filter(q, {i \in Ids(q) : i < tbatch.id0})

AfterReject(q) == q

\* trackBatch resumes after `await this.track(...)`: a rejection ends the loop
\* and rejects trackBatch; else the event is pushed and the next item's track
\* starts, or the array of events is returned.
TrackBatchNext ==
  /\ tbatch.st = "run"
  /\ tracks = {}
  /\ last.k = calls.tracks
  /\ IF last.outcome # "returned"
     THEN /\ tbatch' = [tbatch EXCEPT !.st = "rejected"]
          /\ queue' = AfterReject(queue)
          /\ addResult' = "none"
          /\ UNCHANGED <<processing, flights, sent, nextId, bpRest>>
          /\ UNCHANGED batchRest
     ELSE IF calls.tracks - tbatch.k0 = Len(tbatch.items)
     THEN /\ tbatch' = [tbatch EXCEPT !.st = "returned"]
          /\ addResult' = "none"
          /\ UNCHANGED <<queue, processing, flights, sent, nextId, bpRest>>
          /\ UNCHANGED batchRest
     ELSE TrackStart(tbatch.items[calls.tracks - tbatch.k0 + 1], 0, tbatch.anon, 0)

\* ------------------------------------- session end, timers, sweep, clock

\* Timers that are pending: the handle kept in sessionTimeouts, and handles that
\* were replaced there without being cleared.
Timers == {[sid |-> s, due |-> armed[s]] : s \in {x \in SessionIds : armed[x] # 0}}
            \cup orphans

\* The history of completed track calls after a step of endSession: a step of
\* an endSession call that the application made (x) makes it forget them.
PrevAfterEnd(x) == IF x THEN [a \in Anons |-> NoPrev] ELSE prev

TracksAfterEnd(x) ==
  IF x THEN {[a EXCEPT !.fresh = FALSE, !.chk = NoPrev] : a \in tracks} ELSE tracks

\* endSession(sessionId) up to its first storage call: a session found in the
\* Map gets its endTime and adapter.updateSession is called; else it is looked
\* up in storage. x: the application made the call, not a timer.
StartEnd(sid, x) ==
  IF InMem(sessions, sid)
  THEN /\ sessions' = EndMem(sessions, sid, now)
       /\ ends' = ends \cup
            {[sid |-> sid, pc |-> "e_upd", endTime |-> now, explicit |-> x]}
  ELSE /\ sessions' = sessions
       /\ ends' = ends \cup
            {[sid |-> sid, pc |-> "e_load", endTime |-> 0, explicit |-> x]}

\* A session's expiry timer fires: endSession(sessionId).
TimerFire(tm) ==
  /\ tm \in Timers
  /\ now >= tm.due
  /\ armed' = IF armed[tm.sid] = tm.due THEN [armed EXCEPT ![tm.sid] = 0] ELSE armed
  /\ orphans' = IF armed[tm.sid] = tm.due THEN orphans ELSE orphans \ {tm}
  /\ StartEnd(tm.sid, FALSE)
  /\ addResult' = "none"
  /\ UNCHANGED <<queue, processing, flights, sent, nextId, bpRest>>
  /\ UNCHANGED <<users, now, nextSid, sstore, ustore, ffs, gdpr, tracks, calls,
                 isEnabled, peers, browser, tbatch, subscribers, inbox, prev, swept, last>>

\* The application calls endSession(sessionId).
EndCall(sid) ==
  /\ calls.ends < MaxEndCalls
  /\ calls' = [calls EXCEPT !.ends = @ + 1]
  /\ StartEnd(sid, TRUE)
  /\ prev' = PrevAfterEnd(TRUE)
  /\ tracks' = TracksAfterEnd(TRUE)
  /\ addResult' = "none"
  /\ UNCHANGED <<queue, processing, flights, sent, nextId, bpRest>>
  /\ UNCHANGED <<armed, orphans, users, now, nextSid, sstore, ustore, ffs, gdpr,
                 isEnabled, peers, browser, tbatch, subscribers, inbox, swept, last>>

\* endSession: adapter.getSession resolves; a session found is put into the
\* Map, gets its endTime, and adapter.updateSession is called.
EndLoaded(e) ==
  /\ e.pc = "e_load"
  /\ LET db == DbGet(e.sid)
     IN IF db # NoRec
        THEN /\ sessions' = EndMem(MapSet(sessions, db), e.sid, now)
             /\ ends' = Replace(ends, e, [e EXCEPT !.pc = "e_upd", !.endTime = now])
        ELSE /\ sessions' = sessions
             /\ ends' = ends \ {e}
  /\ prev' = PrevAfterEnd(e.explicit)
  /\ tracks' = TracksAfterEnd(e.explicit)
  /\ addResult' = "none"
  /\ UNCHANGED <<queue, processing, flights, sent, nextId, bpRest>>
  /\ UNCHANGED <<armed, orphans, users, now, nextSid, sstore, ustore, ffs, gdpr,
                 calls, isEnabled, peers, browser, tbatch, subscribers, inbox, swept, last>>

\* endSession: adapter.updateSession resolves; the timer is cleared and the
\* session deleted from the Map.
EndUpdated(e) ==
  /\ e.pc = "e_upd"
  /\ sstore' = DbEnd(sstore, e.sid, e.endTime)
  /\ armed' = ClearTimer(armed, e.sid)
  /\ sessions' = MapDelete(sessions, e.sid)
  /\ ends' = ends \ {e}
  /\ prev' = PrevAfterEnd(e.explicit)
  /\ tracks' = TracksAfterEnd(e.explicit)
  /\ addResult' = "none"
  /\ UNCHANGED <<queue, processing, flights, sent, nextId, bpRest>>
  /\ UNCHANGED <<orphans, users, now, nextSid, ustore, ffs, gdpr, calls,
                 isEnabled, peers, browser, tbatch, subscribers, inbox, swept, last>>

\* endSession: its storage call rejects, and so does endSession.
EndFail(e) ==
  /\ ends' = ends \ {e}
  /\ prev' = PrevAfterEnd(e.explicit)
  /\ tracks' = TracksAfterEnd(e.explicit)
  /\ addResult' = "none"
  /\ UNCHANGED <<queue, processing, flights, sent, nextId, bpRest>>
  /\ UNCHANGED <<sessions, armed, orphans, users, now, nextSid, sstore, ustore,
                 ffs, gdpr, calls, isEnabled, peers, browser, tbatch, subscribers, inbox, swept, last>>

\* cleanupExpiredSessions: the ids it collects.
ExpiredIds(ss, t) == {ss[i].id : i \in {j \in 1..Len(ss) : IsExpired(ss[j], t)}}

\* cleanupExpiredUsers: users not updated for longer than the retention time
\* leave the users Map.
KeptUsers(us, t) ==
  [a \in Anons |->
     IF us[a] # NoUserRec /\ t - us[a].updatedAt > UserRetention
     THEN NoUserRec ELSE us[a]]

SweepMutant ==
  /\ calls.sweeps < MaxSweeps
  /\ ExpiredIds(sessions, now) # {} \/ KeptUsers(users, now) # users
  /\ calls' = [calls EXCEPT !.sweeps = @ + 1]
  /\ LET ex == ExpiredIds(sessions, now)
     IN /\ sessions' = Filter(sessions, Ids(sessions) \ ex)
        /\ armed' = armed
        /\ ffs' = ffs \cup {[sid |-> s, endTime |-> now] : s \in ex}
        /\ swept' = swept \cup ex
  /\ users' = KeptUsers(users, now)
  /\ addResult' = "none"
  /\ UNCHANGED <<queue, processing, flights, sent, nextId, bpRest>>
  /\ UNCHANGED <<orphans, now, nextSid, ends, sstore, ustore, gdpr, tracks,
                 isEnabled, peers, browser, tbatch, subscribers, inbox, prev, last>>

\* The periodic cleanup callback: cleanupExpiredSessions (endSessionImmediately
\* for every collected id: endTime, an unawaited adapter.updateSession, timer
\* cleared, deleted from the Map), then cleanupExpiredUsers.
Sweep ==
  /\ calls.sweeps < MaxSweeps
  /\ ExpiredIds(sessions, now) # {} \/ KeptUsers(users, now) # users
  /\ calls' = [calls EXCEPT !.sweeps = @ + 1]
  /\ LET ex == ExpiredIds(sessions, now)
     IN /\ sessions' = Filter(sessions, Ids(sessions) \ ex)
        /\ armed' = [s \in SessionIds |-> IF s \in ex THEN 0 ELSE armed[s]]
        /\ ffs' = ffs \cup {[sid |-> s, endTime |-> now] : s \in ex}
        /\ swept' = swept \cup ex
  /\ users' = KeptUsers(users, now)
  /\ addResult' = "none"
  /\ UNCHANGED <<queue, processing, flights, sent, nextId, bpRest>>
  /\ UNCHANGED <<orphans, now, nextSid, ends, sstore, ustore, gdpr, tracks,
                 isEnabled, peers, browser, tbatch, subscribers, inbox, prev, last>>

\* The unawaited adapter.updateSession of endSessionImmediately resolves.
FFDone(w) ==
  /\ w \in ffs
  /\ ffs' = ffs \ {w}
  /\ sstore' = DbEnd(sstore, w.sid, w.endTime)
  /\ addResult' = "none"
  /\ UNCHANGED <<queue, processing, flights, sent, nextId, bpRest>>
  /\ UNCHANGED <<sessions, armed, orphans, users, now, nextSid, ends, ustore,
                 gdpr, tracks, calls, isEnabled, peers, browser, tbatch, subscribers, inbox, prev,
                 swept, last>>

\* ... or rejects: the catch handler logs the error.
FFFail(w) ==
  /\ w \in ffs
  /\ ffs' = ffs \ {w}
  /\ addResult' = "none"
  /\ UNCHANGED <<queue, processing, flights, sent, nextId, bpRest>>
  /\ UNCHANGED <<sessions, armed, orphans, users, now, nextSid, ends, sstore,
                 ustore, gdpr, tracks, calls, isEnabled, peers, browser, tbatch, subscribers, inbox,
                 prev, swept, last>>

\* getSession(sessionId) for a session that is not in the Map but is in
\* storage: it is put into the Map.
GetSessionCall(sid) ==
  /\ ~InMem(sessions, sid)
  /\ DbGet(sid) # NoRec
  /\ sessions' = MapSet(sessions, DbGet(sid))
  /\ addResult' = "none"
  /\ UNCHANGED <<queue, processing, flights, sent, nextId, bpRest>>
  /\ UNCHANGED <<armed, orphans, users, now, nextSid, ends, sstore, ustore, ffs,
                 gdpr, tracks, calls, isEnabled, peers, browser, tbatch, subscribers, inbox, prev,
                 swept, last>>

\* Date.now() moves on. A timer that is due runs before the clock passes it.
Advance ==
  /\ now < MaxTime
  /\ \A tm \in Timers : tm.due > now
  /\ now' = now + 1
  /\ addResult' = "none"
  /\ UNCHANGED <<queue, processing, flights, sent, nextId, bpRest>>
  /\ UNCHANGED <<sessions, armed, orphans, users, nextSid, ends, sstore, ustore,
                 ffs, gdpr, tracks, calls, isEnabled, peers, browser, tbatch, subscribers, inbox, prev,
                 swept, last>>

\* ------------------------------------------------- users and subscribers

\* updateUserConsent(anonymousId, consent): getUser (the Map, then storage),
\* the consent is set, the user put into the Map and saved.
UpdateConsent(anon, c) ==
  /\ LET u == IF users[anon] # NoUserRec THEN users[anon] ELSE ustore[anon]
         v == IF u = NoUserRec
              THEN [id |-> 0, consent |-> c, updatedAt |-> now, createdAt |-> now,
                    traits |-> NoTraits]
              ELSE [u EXCEPT !.consent = c, !.updatedAt = now]
     IN /\ users[anon] # v
        /\ users' = [users EXCEPT ![anon] = v]
        /\ ustore' = [ustore EXCEPT ![anon] = v]
  /\ addResult' = "none"
  /\ UNCHANGED <<queue, processing, flights, sent, nextId, bpRest>>
  /\ UNCHANGED <<sessions, armed, orphans, now, nextSid, ends, sstore, ffs, gdpr,
                 tracks, calls, isEnabled, peers, browser, tbatch, subscribers, inbox, prev, swept, last>>

\* identifyUser(userId, anonymousId, traits): only the Map is looked at; a
\* record found there gets the id, the merged traits and updatedAt; else a new
\* record (no consent) replaces whatever storage holds.
IdentifyUser(uid, anon, traits) ==
  /\ LET v == IF users[anon] # NoUserRec
              THEN [users[anon] EXCEPT !.id = uid, !.updatedAt = now,
                                       !.traits = MergeTraits(@, traits)]
              ELSE [id |-> uid, consent |-> "unset", updatedAt |-> now,
                    createdAt |-> now, traits |-> traits]
     IN /\ users[anon] # v
        /\ users' = [users EXCEPT ![anon] = v]
        /\ ustore' = [ustore EXCEPT ![anon] = v]
  /\ addResult' = "none"
  /\ UNCHANGED <<queue, processing, flights, sent, nextId, bpRest>>
  /\ UNCHANGED <<sessions, armed, orphans, now, nextSid, ends, sstore, ffs, gdpr,
                 tracks, calls, isEnabled, peers, browser, tbatch, subscribers, inbox, prev, swept, last>>

\* identifyUser(userId, anonymousId) without traits.
Identify(uid, anon) == IdentifyUser(uid, anon, NoTraits)

\* subscribe: if (!this.isEnabled) return.
SubscribeSkipsMutant == FALSE

SubscribeSkips == ~isEnabled

\* subscribe(subscriber): when realtime is enabled the object is added to the
\* Set and sent the connection message; an object whose send/onMessage throws
\* is removed again by sendToSubscriber.
SubscribeCall(x) ==
  /\ calls.subs < MaxSubCalls
  /\ Len(inbox[x]) < MaxInbox
  /\ IF SubscribeSkips
     THEN /\ calls' = [calls EXCEPT !.subs = @ + 1, !.sub = x]
          /\ UNCHANGED <<subscribers, inbox>>
     ELSE /\ calls' = [calls EXCEPT !.subs = @ + 1, !.sub = x]
          /\ subscribers' = IF SendResult(peers[x]) = "error" THEN subscribers \ {x}
                            ELSE subscribers \cup {x}
          /\ inbox' = IF SendResult(peers[x]) = "sent"
                      THEN [inbox EXCEPT ![x] = Append(@, "connection")]
                      ELSE inbox
  /\ addResult' = "none"
  /\ UNCHANGED <<queue, processing, flights, sent, nextId, bpRest>>
  /\ UNCHANGED <<sessions, armed, orphans, users, now, nextSid, ends, sstore,
                 ustore, ffs, gdpr, tracks, isEnabled, peers, browser, tbatch, prev, swept, last>>

\* subscribe of an object that is not subscribed, with realtime enabled.
Subscribe(x) ==
  /\ isEnabled
  /\ x \notin subscribers
  /\ SubscribeCall(x)

\* State that the RealtimeEventEmitter's own methods leave alone.
castRest == <<sessions, armed, orphans, users, now, nextSid, ends, sstore,
              ustore, ffs, gdpr, tracks, prev, swept, last, browser, tbatch>>

\* unsubscribe(subscriber)
Unsubscribe(x) ==
  /\ x \in subscribers
  /\ subscribers' = subscribers \ {x}
  /\ addResult' = "none"
  /\ UNCHANGED <<queue, processing, flights, sent, nextId, bpRest>>
  /\ UNCHANGED <<castRest, calls, isEnabled, peers, inbox>>

\* enable()
Enable ==
  /\ ~isEnabled
  /\ isEnabled' = TRUE
  /\ addResult' = "none"
  /\ UNCHANGED <<queue, processing, flights, sent, nextId, bpRest>>
  /\ UNCHANGED <<castRest, calls, peers, subscribers, inbox>>

DisableMutant ==
  /\ isEnabled
  /\ isEnabled' = FALSE
  /\ subscribers' = {}
  /\ addResult' = "none"
  /\ UNCHANGED <<queue, processing, flights, sent, nextId, bpRest>>
  /\ UNCHANGED <<castRest, calls, peers, inbox>>

\* disable()
Disable ==
  /\ isEnabled
  /\ isEnabled' = FALSE
  /\ addResult' = "none"
  /\ UNCHANGED <<queue, processing, flights, sent, nextId, bpRest>>
  /\ UNCHANGED <<castRest, calls, peers, subscribers, inbox>>

\* broadcastEvent/Stats/Session/Error: if (!this.isEnabled) return.
CastSkipsMutant == FALSE

CastSkips == ~isEnabled

\* broadcastEvent, broadcastStats, broadcastSession, broadcastError (payload):
\* a message of the method's type goes to broadcast.
Cast(type) ==
  /\ calls.casts < MaxCasts
  /\ \A x \in Peers : Len(inbox[x]) < MaxInbox
  /\ IF CastSkips
     THEN /\ calls' = [calls EXCEPT !.casts = @ + 1, !.cast = type, !.lost = {},
                         !.on = isEnabled, !.ok = Reached]
          /\ UNCHANGED <<subscribers, inbox>>
     ELSE /\ calls' = [calls EXCEPT !.casts = @ + 1, !.cast = type, !.lost = Failing,
                         !.on = isEnabled, !.ok = Reached]
          /\ inbox' = SendAll(inbox, type)
          /\ subscribers' = subscribers \ Failing
  /\ addResult' = "none"
  /\ UNCHANGED <<queue, processing, flights, sent, nextId, bpRest>>
  /\ UNCHANGED <<castRest, isEnabled, peers>>

StaleMutant == {x \in subscribers : peers[x].readyState = 3}

\* Subscribers that report a readyState other than 1 (OPEN).
Stale == {x \in subscribers : peers[x].readyState # Undefined /\ peers[x].readyState # 1}

\* The setInterval callback of startPeriodicCleanup: cleanupStaleSubscribers.
Cleanup ==
  /\ Stale # {}
  /\ subscribers' = subscribers \ Stale
  /\ addResult' = "none"
  /\ UNCHANGED <<queue, processing, flights, sent, nextId, bpRest>>
  /\ UNCHANGED <<castRest, calls, isEnabled, peers, inbox>>

\* The transport of a WebSocket opens (readyState 0 -> 1) or closes (-> 3), or
\* the send/onMessage of an object starts to throw.
PeerChange(x) ==
  /\ \/ /\ peers[x].kind = "socket" /\ peers[x].readyState = 0
        /\ peers' = [peers EXCEPT ![x].readyState = 1]
     \/ /\ peers[x].kind = "socket" /\ peers[x].readyState \in {0, 1}
        /\ peers' = [peers EXCEPT ![x].readyState = 3]
     \/ /\ peers[x].kind # "other" /\ ~peers[x].throws
        /\ peers' = [peers EXCEPT ![x].throws = TRUE]
  /\ addResult' = "none"
  /\ UNCHANGED <<queue, processing, flights, sent, nextId, bpRest>>
  /\ UNCHANGED <<castRest, calls, isEnabled, subscribers, inbox>>

\* ------------------------------------------------------- the browser SDK

\* BrowserAnalyticsSDK after construction: an empty queue, no flush in flight
\* (flushPromise undefined: flight empty), online, the batch timer running.
NoBrowser == [queue |-> <<>>, flight |-> <<>>, online |-> TRUE, timer |-> TRUE,
              next |-> 1]

\* smVars without browser
browserRest == <<sessions, armed, orphans, users, now, nextSid, ends, sstore,
                 ustore, ffs, gdpr, tracks, calls, isEnabled, peers, subscribers,
                 inbox, prev, swept, last, tbatch>>

\* flush() and the synchronous part of processBatch: nothing if a flush is in
\* flight, the queue is empty or the browser is offline; else the first
\* batchSize queued events are spliced off and sent.
ProcessBatch(b) ==
  IF b.flight # <<>> \/ b.queue = <<>> \/ ~b.online
  THEN b
  ELSE LET n == Min(Len(b.queue), BatchSize)
       IN [b EXCEPT !.flight = SubSeq(b.queue, 1, n),
                    !.queue = SubSeq(b.queue, n + 1, Len(b.queue))]

\* addToQueue(event): a full queue loses its oldest event, the new one is
\* appended, and a flush starts once batchSize events are queued.
AddToQueue(b) ==
  LET q0 == IF Len(b.queue) >= MaxQueueSize THEN Tail(b.queue) ELSE b.queue
      q1 == Append(q0, [id |-> b.next, attempts |-> 0])
      b1 == [b EXCEPT !.queue = q1, !.next = @ + 1]
  IN IF Len(q1) >= BatchSize THEN ProcessBatch(b1) ELSE b1

\* The catch block of processBatch: each event of the failed batch that has
\* retries left goes to the front of the queue (unshift), the others are dropped.
RECURSIVE Unshifted(_, _)
Unshifted(batch, q) ==
  IF batch = <<>> THEN q
  ELSE Unshifted(Tail(batch),
                 IF Head(batch).attempts < MaxRetries
                 THEN <<[Head(batch) EXCEPT !.attempts = @ + 1]>> \o q
                 ELSE q)

BrowserStep(b) ==
  /\ browser' = b
  /\ UNCHANGED <<bpVars, browserRest>>

\* track(type, properties), also from the auto-tracking listeners (clicks,
\* window errors, unhandled rejections).
BrowserTrack ==
  /\ browser.next <= MaxEvents
  /\ BrowserStep(AddToQueue(browser))

\* flush() called by the page.
BrowserFlush ==
  /\ browser.queue # <<>>
  /\ BrowserStep(ProcessBatch(browser))

\* The setInterval callback of startBatchTimer.
BrowserTick ==
  /\ browser.timer
  /\ browser.queue # <<>>
  /\ BrowserStep(ProcessBatch(browser))

\* The window "offline" and "online" events.
BrowserOffline ==
  /\ browser.online
  /\ BrowserStep([browser EXCEPT !.online = FALSE])

BrowserOnline ==
  /\ ~browser.online
  /\ BrowserStep(ProcessBatch([browser EXCEPT !.online = TRUE]))

\* sendEvents resolves: the batch is delivered and flushPromise is cleared.
BrowserSendOk ==
  /\ browser.flight # <<>>
  /\ BrowserStep([browser EXCEPT !.flight = <<>>])

\* sendEvents rejects (network error, HTTP status, beacon refused).
BrowserSendFail ==
  /\ browser.flight # <<>>
  /\ BrowserStep([browser EXCEPT !.flight = <<>>,
                                 !.queue = Unshifted(browser.flight, @)])

\* destroy(): the timer is cleared and the queue flushed once.
BrowserDestroy ==
  /\ browser.timer
  /\ BrowserStep(ProcessBatch([browser EXCEPT !.timer = FALSE]))

NextBrowser ==
  \/ BrowserTrack
  \/ BrowserFlush
  \/ BrowserTick
  \/ BrowserOffline
  \/ BrowserOnline
  \/ BrowserSendOk
  \/ BrowserSendFail
  \/ BrowserDestroy

BPInit ==
  /\ queue = <<>>
  /\ processing = FALSE
  /\ flights = {}
  /\ timerOn = TRUE
  /\ immediates = 0
  /\ wipe = [st |-> "none", kind |-> "none"]
  /\ closed = FALSE
  /\ nextId = 1
  /\ stored = {}
  /\ dropped = {}
  /\ sent = [i \in EventIds |-> 0]
  /\ requeued = [i \in EventIds |-> 0]
  /\ addResult = "none"

BPNext ==
  \/ Add
  \/ \E k \in 1..MaxBatchArg : AddBatch(k)
  \/ Flush
  \/ Tick
  \/ Immediate
  \/ \E f \in flights : SaveOk(f)
  \/ \E f \in flights : SaveFail(f)
  \/ \E f \in flights : RetryRequeue(f)
  \/ \E f \in flights : FlushFinally(f)
  \/ WipeCall("clear")
  \/ WipeCall("shutdown")
  \/ WipeResume

\* SessionManager, RealtimeStreamer and the SDK after construction, with
\* enableGDPR = g and enableRealtime = r.
SMInit(g, r) ==
  /\ sessions = <<>>
  /\ armed = [s \in SessionIds |-> 0]
  /\ orphans = {}
  /\ users = [a \in Anons |-> NoUserRec]
  /\ now = 1
  /\ nextSid = 1
  /\ ends = {}
  /\ sstore = [s \in SessionIds |-> NoRec]
  /\ ustore = [a \in Anons |-> NoUserRec]
  /\ ffs = {}
  /\ gdpr = g
  /\ tracks = {}
  /\ calls = NoCalls
  /\ isEnabled = r
  /\ subscribers = {}
  /\ peers = [x \in Peers |-> GoodPeer]
  /\ browser = NoBrowser
  /\ tbatch = NoBatch
  /\ inbox = [x \in Peers |-> <<>>]
  /\ prev = [a \in Anons |-> NoPrev]
  /\ swept = {}
  /\ last = NoLast

\* The batch processor on its own.
Init == BPInit /\ SMInit(FALSE, FALSE)

Next == BPNext /\ UNCHANGED smVars

Spec == Init /\ [][Next]_vars

\* The batch processor while it runs (no clear, no shutdown): the flush timer
\* keeps firing, the adapter answers every saveEvents call, the retry delay
\* elapses, and callbacks and continuations that are due run.
LiveSteps ==
  \/ Add
  \/ \E k \in 1..MaxBatchArg : AddBatch(k)
  \/ Flush
  \/ Tick
  \/ Immediate
  \/ \E f \in flights : SaveOk(f)
  \/ \E f \in flights : SaveFail(f)
  \/ \E f \in flights : RetryRequeue(f)
  \/ \E f \in flights : FlushFinally(f)

NextLive == LiveSteps /\ UNCHANGED smVars

SpecLive ==
  /\ Init
  /\ [][NextLive]_vars
  /\ WF_vars(Tick /\ UNCHANGED smVars)
  /\ WF_vars(Immediate /\ UNCHANGED smVars)
  /\ WF_vars((\E f \in flights : SaveOk(f) \/ SaveFail(f)) /\ UNCHANGED smVars)
  /\ WF_vars((\E f \in flights : RetryRequeue(f)) /\ UNCHANGED smVars)
  /\ WF_vars((\E f \in flights : FlushFinally(f)) /\ UNCHANGED smVars)

\* Users: identify and consent calls, the clock, the periodic cleanup.
NextUsers ==
  \/ \E uid \in UserIds, anon \in Anons, t \in TraitSets : IdentifyUser(uid, anon, t)
  \/ \E anon \in Anons, c \in {"true", "false"} : UpdateConsent(anon, c)
  \/ Sweep
  \/ Advance

SpecUsers == Init /\ [][NextUsers]_vars

\* The steps of track, common to the specifications below. The storage adapter
\* accepts every batch here.
TrackNext ==
  \/ \E a \in tracks : TrackResolved(a)
  \/ \E a \in tracks : TrackTouched(a)
  \/ \E a \in tracks : TrackAdded(a)
  \/ \E a \in tracks : TrackFail(a)
  \/ \E f \in flights : SaveOk(f) /\ UNCHANGED smVars
  \/ \E f \in flights : FlushFinally(f) /\ Settle(f) /\ UNCHANGED smRest

\* Session ids a caller can pass: those that were issued.
KnownSids == 1..(nextSid - 1)

\* Sessions, with track calls made one after the other and any userId and
\* explicit sessionId: expiry timers, the cleanup sweep, getSession, the clock.
\* A timer that fires here finds its session in the Map.
InitSM == BPInit /\ SMInit(FALSE, FALSE)

NextSM ==
  \/ /\ tracks = {}
     /\ \E uid \in {0} \cup UserIds, anon \in Anons, xsid \in {0} \cup KnownSids :
          TrackCall(uid, anon, xsid)
  \/ TrackNext
  \/ \E a \in tracks : TrackLoaded(a)
  \/ \E tm \in Timers : TimerFire(tm)
  \/ \E e \in ends : EndUpdated(e)
  \/ \E e \in ends : EndFail(e)
  \/ Sweep
  \/ \E w \in ffs : FFDone(w)
  \/ \E w \in ffs : FFFail(w)
  \/ \E sid \in 1..(nextSid - 1) : GetSessionCall(sid)
  \/ Advance

SpecSM == InitSM /\ [][NextSM]_vars

\* Sessions, with track calls by anonymousId that overlap: expiry timers, the
\* cleanup sweep, the clock.
InitRace == BPInit /\ SMInit(FALSE, FALSE)

NextRace ==
  \/ \E anon \in Anons : TrackCall(0, anon, 0)
  \/ TrackNext
  \/ \E a \in tracks : TrackLoaded(a)
  \/ \E tm \in Timers : TimerFire(tm)
  \/ \E e \in ends : EndLoaded(e)
  \/ \E e \in ends : EndUpdated(e)
  \/ \E e \in ends : EndFail(e)
  \/ Sweep
  \/ \E w \in ffs : FFDone(w)
  \/ \E w \in ffs : FFFail(w)
  \/ Advance

SpecRace == InitRace /\ [][NextRace]_vars

\* Sessions ended by the application: track calls by anonymousId and explicit
\* endSession calls, with the clock standing still.
InitEnd == BPInit /\ SMInit(FALSE, FALSE)

NextEnd ==
  \/ \E anon \in Anons : TrackCall(0, anon, 0)
  \/ TrackNext
  \/ \E a \in tracks : TrackLoaded(a)
  \/ \E sid \in 1..(nextSid - 1) : EndCall(sid)
  \/ \E e \in ends : EndLoaded(e)
  \/ \E e \in ends : EndUpdated(e)
  \/ \E e \in ends : EndFail(e)

SpecEnd == InitEnd /\ [][NextEnd]_vars

\* Consent: track with enableGDPR and enableRealtime on, users and subscribers.
InitTrack == BPInit /\ SMInit(TRUE, TRUE)

NextTrack ==
  \/ \E anon \in Anons, xsid \in {0} \cup KnownSids : TrackCall(0, anon, xsid)
  \/ TrackNext
  \/ \E anon \in Anons, c \in {"true", "false"} : UpdateConsent(anon, c)
  \/ \E uid \in UserIds, anon \in Anons : Identify(uid, anon)
  \/ \E x \in Subs : Subscribe(x)

SpecTrack == InitTrack /\ [][NextTrack]_vars

\* Ingestion: track of any event type with enableRealtime on, next to direct
\* add calls; saveEvents may reject, items are retried.
InitIngest == BPInit /\ SMInit(FALSE, TRUE)

NextIngest ==
  \/ \E type \in EventTypes, anon \in Anons : TrackStart(type, 0, anon, 0)
  \/ TrackNext
  \/ Add /\ UNCHANGED smVars
  \/ \E f \in flights : SaveFail(f) /\ UNCHANGED smVars
  \/ \E f \in flights : RetryRequeue(f) /\ UNCHANGED smVars
  \/ \E x \in Subs : Subscribe(x)

SpecIngest == InitIngest /\ [][NextIngest]_vars

\* The RealtimeEventEmitter on its own, after construction (disabled), with
\* any objects as subscribers.
InitCast ==
  /\ BPInit
  /\ sessions = <<>>
  /\ armed = [s \in SessionIds |-> 0]
  /\ orphans = {}
  /\ users = [a \in Anons |-> NoUserRec]
  /\ now = 1
  /\ nextSid = 1
  /\ ends = {}
  /\ sstore = [s \in SessionIds |-> NoRec]
  /\ ustore = [a \in Anons |-> NoUserRec]
  /\ ffs = {}
  /\ gdpr = FALSE
  /\ tracks = {}
  /\ calls = NoCalls
  /\ isEnabled = FALSE
  /\ subscribers = {}
  /\ peers \in [Peers -> NewPeers]
  /\ browser = NoBrowser
  /\ tbatch = NoBatch
  /\ inbox = [x \in Peers |-> <<>>]
  /\ prev = [a \in Anons |-> NoPrev]
  /\ swept = {}
  /\ last = NoLast

NextCast ==
  \/ Enable
  \/ Disable
  \/ \E x \in Peers : SubscribeCall(x)
  \/ \E x \in Peers : Unsubscribe(x)
  \/ \E type \in CastTypes : Cast(type)
  \/ Cleanup
  \/ \E x \in Peers : PeerChange(x)

SpecCast == InitCast /\ [][NextCast]_vars

\* ------------------------------------------------- BatchProcessor claims

\* The items a flush activation still owns: the batch while saveEvents is
\* pending, the retry items while the retry delay runs.
Pending(f) ==
  IF f.pc = "saving" THEN f.batch ELSE IF f.pc = "delay" THEN f.retry ELSE <<>>

PendingIds == UNION {Ids(Pending(f)) : f \in flights}

AdmittedIds == 1..(nextId - 1)

Saving == {f \in flights : f.pc = "saving"}

\* C1: in every reachable state the queue length is at most maxQueueSize.
C1_QueueBounded == Len(queue) <= MaxQueueSize

\* C2: add on a full queue fails with the capacity error, leaves the queue
\* unchanged and starts no flush; add on a queue below maxQueueSize admits the
\* event (it is appended, and may leave at once in the batch of the flush the
\* add triggers) and does not fail.
C2_AddStep ==
  Add =>
    IF Len(queue) >= MaxQueueSize
    THEN /\ addResult' = "capacity"
         /\ queue' = queue
         /\ flights' = flights
         /\ processing' = processing
         /\ sent' = sent
    ELSE /\ addResult' = "ok"
         /\ LET q == Append(queue, NewItem(nextId))
            IN \/ queue' = q /\ flights' = flights
               \/ \E f \in flights' \ flights :
                     /\ flights' = flights \cup {f}
                     /\ f.batch \o queue' = q

C2_AddCapacity == [][C2_AddStep]_vars

C2_Witness ==
  /\ addResult = "capacity"
  /\ Len(queue) = MaxQueueSize

\* C3: an item is handed to saveEvents at most maxRetries times and re-queued
\* at most maxRetries - 1 times; when it is dropped for retries it has been
\* handed exactly maxRetries times, re-queued exactly maxRetries - 1 times, and
\* it is never in the queue or in a batch again.
C3_RetryLimit ==
  \A i \in AdmittedIds :
    /\ sent[i] <= MaxRetries
    /\ requeued[i] <= MaxRetries - 1
    /\ i \in dropped =>
         /\ sent[i] = MaxRetries
         /\ requeued[i] = MaxRetries - 1
         /\ i \notin Ids(queue)
         /\ i \notin PendingIds
         /\ i \notin stored

C3_Witness == dropped # {}

\* C4: every admitted item is still in the queue or owned by a flush, unless a
\* saveEvents call that contained it succeeded or it was dropped for retries.
C4_NoItemLost ==
  \A i \in AdmittedIds :
    i \in Ids(queue) \cup PendingIds \cup stored \cup dropped

\* C5: at most one saveEvents call is in flight, and a flush invoked while
\* another flush is processing, or on an empty queue, removes nothing from the
\* queue and calls storage for nothing.
C5_FlushStep ==
  /\ Cardinality(Saving') <= 1
  /\ (Flush \/ Tick \/ Immediate \/ WipeCall("clear") \/ WipeCall("shutdown"))
       /\ (processing \/ queue = <<>>)
     => queue' = queue /\ flights' = flights /\ sent' = sent
  /\ (Add \/ \E k \in 1..MaxBatchArg : AddBatch(k)) /\ processing
     => /\ flights' = flights
        /\ sent' = sent
        /\ Len(queue') >= Len(queue)
        /\ SubSeq(queue', 1, Len(queue)) = queue

C5_SingleFlight == [][C5_FlushStep]_vars

C5_Witness ==
  /\ processing
  /\ Saving # {}
  /\ Len(queue) >= BatchSize

ActivePairs ==
  {p \in (1..Len(sessions)) \X (1..Len(sessions)) :
     /\ p[1] < p[2]
     /\ IsActive(sessions[p[1]], now)
     /\ IsActive(sessions[p[2]], now)}

\* C7: a track call that starts less than sessionTimeout after the previous
\* completed track call with the same anonymousId and userId, with no explicit
\* sessionId and no explicit end in between, carries the same sessionId, and
\* the session's eventCount is greater than after the previous call.
C7_SameSession == last.c7ok

\* C8: the sessions Map never holds two active sessions with the same
\* anonymousId nor two with the same userId.
C8_OneActivePerIdentity ==
  \A p \in ActivePairs :
    /\ sessions[p[1]].anonymousId # sessions[p[2]].anonymousId
    /\ sessions[p[1]].userId = 0 \/ sessions[p[1]].userId # sessions[p[2]].userId

\* C9: with enableGDPR on, a track call for an identity whose analytics consent
\* is not true returns without enqueueing its event, without touching a session
\* and without a message to any subscriber.
C9_NoConsentNoEffect ==
  last.denied => ~last.enq /\ last.touches = 0 /\ last.msgs = 0

\* C10: a session the cleanup sweep ended stays ended: no active-session
\* lookup, by any userId and anonymousId, returns it afterwards.
C10_SweptStaysEnded ==
  \A uid \in {0} \cup UserIds, anon \in Anons :
    FindActive(sessions, uid, anon, now).id \notin swept

\* ------------------------------------------------ AnalyticsSDK.track claims

\* C11: a track call that fails validation is rejected before any side effect:
\* it created no session, touched none, enqueued nothing, broadcast nothing.
C11_RejectedNoEffect ==
  last.outcome = "validation" =>
    ~last.created /\ last.touches = 0 /\ ~last.enq /\ last.msgs = 0

C13_SideWriteIgnored == last.outcome # "storage"

\* C14: with realtime enabled, every track call that passes validation and
\* consent broadcasts its event, also when add rejects it because the queue is
\* full.
C14_BroadcastRegardless ==
  isEnabled /\ last.outcome \in {"returned", "capacity"} /\ ~last.denied
    => last.cast

\* -------------------------------------------- RealtimeEventEmitter claims

\* A step of a broadcastEvent/Stats/Session/Error call.
CastStep == calls'.casts = calls.casts + 1

\* C15: while the broadcaster is disabled, a broadcast* call delivers no
\* message to any subscriber, however many there are.
C15_DisabledNoDelivery == [][CastStep /\ ~isEnabled => inbox' = inbox]_vars

C15_Witness ==
  calls.cast # "none" /\ ~calls.on /\ calls.ok = Peers

\* C16: enable() and disable() leave the subscriber set as it is.
C16_ToggleKeepsSubscribers ==
  [][isEnabled' # isEnabled => subscribers' = subscribers]_vars

C16_Witness == ~isEnabled /\ \E x \in subscribers : inbox[x] # <<>>

\* An object whose send or onMessage sendToSubscriber calls: a WebSocket that
\* is OPEN, or an object with an onMessage callback.
Receptive(p) == p.kind = "callback" \/ (p.kind = "socket" /\ p.readyState = 1)

Last(seq) == seq[Len(seq)]

\* C17 as stated: while enabled, a broadcast* call delivers exactly one message
\* of its type to every subscriber in the set (one whose send throws aside).
C17_OneEachToAll ==
  [][CastStep /\ isEnabled =>
       \A x \in subscribers :
         ~peers[x].throws => inbox'[x] = Append(inbox[x], calls'.cast)]_vars

\* C17, amended: while enabled, a broadcast* call delivers exactly one message
\* of its type to every subscriber in the set that is an OPEN WebSocket or has
\* an onMessage callback (and does not throw), and nothing to anyone else.
C17_OneEachToReceivers ==
  [][CastStep /\ isEnabled =>
       \A x \in Peers :
         inbox'[x] = IF x \in subscribers /\ Receptive(peers[x]) /\ ~peers[x].throws
                     THEN Append(inbox[x], calls'.cast)
                     ELSE inbox[x]]_vars

C17_Witness ==
  /\ calls.on /\ calls.ok # {}
  /\ \A x \in calls.ok : Last(inbox[x]) = calls.cast
  /\ \E y \in subscribers \ calls.ok :
       ~Receptive(peers[y]) /\ (inbox[y] = <<>> \/ Last(inbox[y]) = "connection")

\* A step of a subscribe call; its argument is calls'.sub.
SubStep == calls'.subs = calls.subs + 1

\* C18 as stated: subscribe adds the subscriber to the set and sends it the
\* connection message, which is the first message the subscriber has (an
\* object whose send throws aside).
C18_SubscribeConfirms ==
  [][SubStep /\ ~peers[calls'.sub].throws =>
       /\ calls'.sub \in subscribers'
       /\ inbox'[calls'.sub] # <<>>
       /\ inbox'[calls'.sub][1] = "connection"]_vars

\* C18, amended: while enabled, subscribe adds the subscriber and hands it the
\* connection message at once when it is an OPEN WebSocket or has onMessage; a
\* WebSocket that is not OPEN is added without it; while disabled subscribe
\* changes nothing. Nothing but that connection message reaches an object
\* that is not in the set.
C18_SubscribeWhileEnabled ==
  [][/\ SubStep =>
          LET x == calls'.sub
          IN IF ~isEnabled
             THEN subscribers' = subscribers /\ inbox' = inbox
             ELSE IF ~Receptive(peers[x])
             THEN subscribers' = subscribers \cup {x} /\ inbox' = inbox
             ELSE IF peers[x].throws
             THEN subscribers' = subscribers \ {x} /\ inbox' = inbox
             ELSE /\ subscribers' = subscribers \cup {x}
                  /\ inbox' = [inbox EXCEPT ![x] = Append(@, "connection")]
     /\ \A x \in Peers \ subscribers :
          inbox'[x] # inbox[x] =>
            x \in subscribers' /\ inbox'[x] = Append(inbox[x], "connection")]_vars

C18_Witness ==
  \E x \in subscribers :
    /\ calls.sub = x
    /\ Len(inbox[x]) >= 2
    /\ inbox[x][1] = "connection"
    /\ inbox[x][2] \in CastTypes

\* C19 as stated: a subscriber in the set whose send throws, or whose transport
\* is closed, is out of the set when the broadcast* call returns.
C19_ClosedOrThrowingRemoved ==
  [][CastStep /\ isEnabled =>
       \A x \in subscribers :
         \/ Receptive(peers[x]) /\ peers[x].throws
         \/ peers[x].kind = "socket" /\ peers[x].readyState = 3
         => x \notin subscribers']_vars

\* C19, amended: a broadcast* call removes exactly the subscribers whose send
\* or onMessage it called and that threw; a WebSocket that is not OPEN is not
\* sent to and stays in the set.
C19_ThrowingRemoved ==
  [][CastStep /\ isEnabled =>
       subscribers' =
         subscribers \ {x \in subscribers : Receptive(peers[x]) /\ peers[x].throws}]_vars

C19_Witness ==
  /\ calls.on /\ calls.lost # {} /\ calls.lost \cap subscribers = {}
  /\ \E y \in subscribers : peers[y].kind = "socket" /\ peers[y].readyState = 3

\* C20: a subscriber whose send fails during a broadcast* call does not keep
\* the message from the other subscribers, and nobody but failing subscribers
\* leaves the set.
C20_FailureContained ==
  [][CastStep /\ isEnabled =>
       /\ \A y \in subscribers :
            Receptive(peers[y]) /\ ~peers[y].throws =>
              y \in subscribers' /\ inbox'[y] = Append(inbox[y], calls'.cast)
       /\ subscribers' \subseteq subscribers
       /\ \A x \in subscribers \ subscribers' : peers[x].throws]_vars

C20_Witness ==
  /\ calls.on /\ calls.lost # {} /\ calls.ok # {}
  /\ \A y \in calls.ok : y \in subscribers /\ Last(inbox[y]) = calls.cast

\* ------------------------------------------------ claims C21 to C30

C22_EventuallySettled ==
  \A i \in EventIds : (i \in AdmittedIds) ~> (i \in stored \cup dropped)

C22_Witness ==
  /\ nextId - 1 = MaxEvents
  /\ queue = <<>> /\ flights = {}
  /\ stored # {} /\ dropped # {}
  /\ stored \cup dropped = AdmittedIds

\* C23: once shutdown() has returned the flush timer is stopped, the queue is
\* empty and stays empty, and no saveEvents call is started any more.
C23_QuiescentAfterShutdown ==
  /\ [](closed => ~timerOn /\ queue = <<>>)
  /\ [][closed => Saving' \subseteq Saving]_vars

\* C24: an identify call for an anonymousId that was identified before leaves
\* one user record whose traits are the earlier traits merged with the new
\* ones (new values win), whose createdAt is unchanged and whose updatedAt is
\* greater than before.
C24_IdentifyMerges ==
  [][\A uid \in UserIds, anon \in Anons, t \in TraitSets :
       IdentifyUser(uid, anon, t) /\ ustore[anon].id # 0 =>
         /\ ustore'[anon].traits = MergeTraits(ustore[anon].traits, t)
         /\ ustore'[anon].createdAt = ustore[anon].createdAt
         /\ ustore'[anon].updatedAt > ustore[anon].updatedAt]_vars

\* The events of an addBatch call of k events that fit below maxQueueSize: the
\* longest prefix.
Fits(q, k) ==
  CHOOSE j \in 0..k :
    /\ j = 0 \/ Len(q) + j <= MaxQueueSize
    /\ \A i \in (j + 1)..k : Len(q) + i > MaxQueueSize

\* C25: addBatch(events) admits, in order, the longest prefix of events that
\* fits below maxQueueSize, discards the rest without failing, and leaves the
\* queue length at most maxQueueSize.
C25_AddBatchTruncates ==
  [][\A k \in 1..MaxBatchArg :
       AddBatch(k) =>
         /\ nextId' = nextId + Fits(queue, k)
         /\ addResult' = "none"
         /\ \E b \in {<<>>} \cup {f.batch : f \in flights' \ flights} :
              b \o queue' = queue \o NewItems(nextId, Fits(queue, k))
         /\ Len(queue') <= MaxQueueSize]_vars

\* The browser SDK on its own.
SpecBrowser == Init /\ [][NextBrowser]_vars

\* C26: in the browser SDK the event queue never holds more than maxQueueSize
\* events, whatever the sequence of track calls, failed batches and offline
\* periods.
C26_BrowserQueueBounded == Len(browser.queue) <= MaxQueueSize

\* C27: the session getOrCreateSession returns is active when it returns: it
\* is in the in-memory session map and has no endTime, whatever ran while the
\* call was suspended at its storage write.
C27_ResolvedIsActive ==
  [][\A a \in tracks :
       TrackResolved(a) =>
         /\ InMem(sessions, a.rsid)
         /\ MemGet(sessions, a.rsid).endTime = 0]_vars

\* C28: every session has at most one pending expiry timer, and a timer ends
\* a session only when at least sessionTimeout has passed since the session's
\* lastActivityTime.
C28_TimerAfterTimeout ==
  /\ [](\A s \in SessionIds : Cardinality({tm \in Timers : tm.sid = s}) <= 1)
  /\ [][\A tm \in Timers :
          /\ TimerFire(tm)
          /\ InMem(sessions, tm.sid)
          /\ MemGet(sessions, tm.sid).endTime = 0
          => now - MemGet(sessions, tm.sid).last >= SessionTimeout]_vars

\* The flushes whose batch is in flight: handed to saveEvents, or held by
\* processBatch during the retry delay.
InFlight == {f \in flights : f.pc \in {"saving", "delay"}}

\* C29: no item is in the batches of two flushes in flight at once, no item is
\* in the queue twice, and no item is in the queue while it is in the batch in
\* flight.
C29_NoDoubleHandling ==
  /\ \A f, g \in InFlight : f # g => Ids(f.batch) \cap Ids(g.batch) = {}
  /\ \A i, j \in 1..Len(queue) : i # j => queue[i].id # queue[j].id
  /\ \A f \in InFlight : Ids(f.batch) \cap Ids(queue) = {}

\* A batch is being saved for the second time while newer items wait.
C29_Witness ==
  \E f \in Saving :
    /\ queue # <<>>
    /\ \E i \in Ids(f.batch) : requeued[i] > 0 /\ sent[i] = 2

\* C30: a session's eventCount follows the events admitted to the queue: a
\* track call whose event was admitted incremented an eventCount exactly once,
\* and a call that was skipped for consent or rejected incremented none.
C30_CountFollowsAdmitted ==
  /\ last.outcome = "returned" /\ last.enq => last.touches = 1
  /\ last.outcome = "returned" /\ ~last.enq => last.touches = 0
  /\ last.outcome \in {"validation", "capacity", "storage", "save"} =>
       last.touches = 0

\* A sessionId string that no getOrCreateSession call issued.
ForeignSid == MaxSessions + 1

\* track calls made one after the other with any explicit sessionId a caller
\* can pass (none, an issued one, one never issued); every storage call
\* succeeds.
NextXsid ==
  \/ /\ tracks = {}
     /\ \E anon \in Anons, xsid \in {0, ForeignSid} \cup KnownSids :
          TrackCall(0, anon, xsid)
  \/ \E a \in tracks : TrackResolved(a)
  \/ \E a \in tracks : TrackLoaded(a)
  \/ \E a \in tracks : TrackTouched(a)
  \/ \E a \in tracks : TrackAdded(a)
  \/ \E f \in flights : SaveOk(f) /\ UNCHANGED smVars
  \/ \E f \in flights : FlushFinally(f) /\ Settle(f) /\ UNCHANGED smRest
  \/ \E tm \in Timers : TimerFire(tm)
  \/ \E e \in ends : EndUpdated(e)
  \/ Advance

SpecXsid == Init /\ [][NextXsid]_vars

\* ------------------------------------------------------ claims C31 to C39

\* C31: an event admitted to the queue carries the sessionId of a session that
\* exists in memory or in storage and whose activity this track call updated,
\* also when the caller passed an explicit sessionId.
C31_EventSessionExists ==
  [][\A a \in tracks :
       (TrackLoaded(a) \/ TrackTouched(a)) /\ addResult' = "ok" =>
         /\ InMem(sessions', a.esid) \/ DbGet(a.esid)' # NoRec
         /\ a.pc = "t_touch"]_vars

\* No saveEvents call has failed so far.
NoFailure ==
  /\ dropped = {}
  /\ \A i \in EventIds : requeued[i] = 0
  /\ \A f \in flights : ~f.failed

\* Event ids are given in the order of admission: a sequence of items is in
\* enqueue order when its ids increase.
InOrder(s) == \A i, j \in 1..Len(s) : i < j => s[i].id < s[j].id

\* C32: events are enqueued in call order and, as long as no saveEvents call
\* has failed, handed to storage in that order: the queue is in admission
\* order, every batch taken is in admission order, comes after everything
\* handed to storage before and before everything left in the queue.
C32_FifoWithoutFailure ==
  [][NoFailure' =>
       /\ InOrder(queue')
       /\ \A f \in {g \in flights' \ flights : sent' # sent} :
            /\ InOrder(f.batch)
            /\ \A i \in Ids(f.batch) :
                 /\ \A j \in EventIds : sent[j] > 0 => j < i
                 /\ \A j \in Ids(queue') : i < j]_vars

\* A second batch is being saved after the first was stored, an event waits
\* behind it, and nothing has failed.
C32_Witness ==
  /\ NoFailure
  /\ stored # {}
  /\ queue # <<>>
  /\ \E f \in Saving : \A i \in Ids(f.batch) : i \notin stored /\ sent[i] = 1

\* C33: when endSession(sessionId) completes, the session is not in the
\* in-memory map, its stored record has endTime set, no expiry timer is pending
\* for it, and no lookup of an active session returns it, so the next
\* getOrCreateSession for its identity creates a session with another id.
C33_EndedIsGone ==
  [][\A e \in ends :
       EndUpdated(e) =>
         /\ ~InMem(sessions', e.sid)
         /\ DbGet(e.sid)' # NoRec => DbGet(e.sid)'.endTime # 0
         /\ \A tm \in Timers' : tm.sid # e.sid
         /\ \A uid \in {0} \cup UserIds, anon \in Anons :
              FindActive(sessions', uid, anon, now').id # e.sid]_vars

NextBatch ==
  \/ \E items \in BatchInputs, anon \in Anons : TrackBatchCall(items, anon)
  \/ TrackBatchNext
  \/ \E a \in tracks : TrackResolved(a)
  \/ \E a \in tracks : TrackTouched(a)
  \/ \E a \in tracks : TrackAdded(a)
  \/ \E a \in tracks : TrackFail(a)
  \/ \E f \in flights : SaveOk(f) /\ UNCHANGED smVars
  \/ \E f \in flights : SaveFail(f) /\ UNCHANGED smVars
  \/ \E f \in flights : RetryRequeue(f) /\ UNCHANGED smVars
  \/ \E f \in flights : FlushFinally(f) /\ Settle(f) /\ UNCHANGED smRest
  \/ \E x \in Subs : Subscribe(x)

SpecBatch == InitIngest /\ [][NextBatch]_vars

\* Items of the running or ended trackBatch call whose track returned.
BatchDone ==
  IF tbatch.st = "rejected" THEN calls.tracks - tbatch.k0 - 1
  ELSE IF tbatch.st = "returned" THEN calls.tracks - tbatch.k0
  ELSE calls.tracks - tbatch.k0 - Cardinality(tracks)
       - (IF tracks = {} /\ last.k = calls.tracks /\ last.outcome # "returned"
          THEN 1 ELSE 0)

\* Ids of the events that are in the queue, in a batch in flight, stored, or
\* dropped after their retries.
Held ==
  Ids(queue) \cup UNION {Ids(f.batch) : f \in flights} \cup stored \cup dropped

\* C35: trackBatch runs one track per item, in the order of the items, one at
\* a time, and is not atomic: when the track of an item rejects, the events of
\* the items before it stay enqueued and broadcast and the eventCounts they
\* raised stay raised.
C35_BatchNotAtomic ==
  /\ tbatch.st = "run" =>
       /\ Cardinality(tracks) <= 1
       /\ calls.tracks - tbatch.k0 <= Len(tbatch.items)
       /\ \A a \in tracks : a.type = tbatch.items[a.k - tbatch.k0]
  /\ tbatch.st = "returned" => BatchDone = Len(tbatch.items)
  /\ tbatch.st \in {"rejected", "returned"} =>
       /\ tbatch.id0 + BatchDone = nextId
       /\ tbatch.id0..(nextId - 1) \subseteq Held
       /\ \A x \in tbatch.subs0 :
            EventMsgs(inbox[x]) = tbatch.msgs0[x] + BatchDone
       /\ CountSum(sessions) >= tbatch.cnt0 + BatchDone

\* The second item's track was rejected after the first item's event was
\* enqueued and broadcast to a subscriber.
C35_Witness ==
  /\ tbatch.st = "rejected"
  /\ BatchDone = 1
  /\ tbatch.subs0 # {}
  /\ tbatch.id0 \in Held

\* C36: identify leaves the consent recorded for an anonymousId as it is, and
\* setConsent leaves its traits and user id as they are, in the in-memory
\* record and in the stored one, also when the record is not in memory.
C36_IdentifyConsentFrames ==
  [][/\ \A uid \in UserIds, anon \in Anons, t \in TraitSets :
          IdentifyUser(uid, anon, t) =>
            /\ ustore[anon] # NoUserRec =>
                 ustore'[anon].consent = ustore[anon].consent
            /\ users[anon] # NoUserRec =>
                 users'[anon].consent = users[anon].consent
     /\ \A anon \in Anons, c \in {"true", "false"} :
          UpdateConsent(anon, c) =>
            /\ ustore[anon] # NoUserRec =>
                 /\ ustore'[anon].traits = ustore[anon].traits
                 /\ ustore'[anon].id = ustore[anon].id
            /\ users[anon] # NoUserRec =>
                 /\ users'[anon].traits = users[anon].traits
                 /\ users'[anon].id = users[anon].id]_vars

\* C37: every item in the queue has 0 <= attempts < maxRetries, and attempts
\* is the number of failed saveEvents calls that contained the item: 0 for an
\* item never handed to storage, one more for each hand-over that failed (an
\* item being saved has one hand-over that has not failed).
C37_AttemptsCountFailures ==
  /\ \A i \in 1..Len(queue) :
       /\ 0 <= queue[i].attempts /\ queue[i].attempts < MaxRetries
       /\ queue[i].attempts = sent[queue[i].id]
  /\ \A f \in Saving : \A i \in 1..Len(f.batch) :
       f.batch[i].attempts = sent[f.batch[i].id] - 1

\* An item is back in the queue after a failed save, next to a new one.
C37_Witness ==
  \E i, j \in 1..Len(queue) :
    /\ queue[i].attempts = MaxRetries - 1
    /\ queue[j].attempts = 0
    /\ dropped # {}

\* C38: every flush that sets the in-flight flag clears it again, whether
\* saveEvents resolved or rejected, provided the adapter call returns.
C38_FlushReturnsToIdle == processing ~> ~processing

\* A flush whose save failed has ended: the flag is clear, nothing is in
\* flight, and its items are back in the queue.
C38_Witness ==
  /\ ~processing
  /\ flights = {}
  /\ \E i \in Ids(queue) : requeued[i] > 0

\* The periodic sweep of the subscribers, with subscribers that stay until the
\* sweep or a failed send removes them.
NextStale ==
  \/ Enable
  \/ Disable
  \/ \E x \in Peers : SubscribeCall(x)
  \/ \E type \in CastTypes : Cast(type)
  \/ Cleanup
  \/ \E x \in Peers : PeerChange(x)

SpecStale == InitCast /\ [][NextStale]_vars

\* A WebSocket whose readyState is not OPEN.
NonOpen(p) == p.kind = "socket" /\ p.readyState # 1

\* C39: after a subscriber sweep no subscriber with a transport in a non-open
\* state is left in the set, and every subscriber that was open or has only a
\* callback is still in it, whatever was broadcast before and whether the
\* broadcaster is enabled or not.
C39_SweepRemovesNonOpen ==
  [][Cleanup =>
       /\ \A x \in subscribers' : ~NonOpen(peers'[x])
       /\ \A x \in subscribers : ~NonOpen(peers[x]) => x \in subscribers']_vars

\* With the broadcaster disabled and before any broadcast, a subscriber that
\* was confirmed and whose socket closed later is out of the set, while its
\* send does not throw: the sweep removed it.
C39_Witness ==
  \E x \in Peers :
    /\ ~isEnabled
    /\ calls.casts = 0
    /\ inbox[x] # <<>>
    /\ peers[x].readyState = 3 /\ ~peers[x].throws
    /\ x \notin subscribers

====
